---- MODULE Spec2Model ----
(***************************************************************************)
(* A model of advanced_finance_guru.py: the FinancialGuru object (its      *)
(* construction order and risk score), the annuity calculators             *)
(* (calculate_sip, calculate_swp, calculate_emi), the slab walk of         *)
(* calculate_tax, tax_saving_options and create_goal_plan, and the places  *)
(* of main() that read their results.                                      *)
(*                                                                         *)
(* Python numbers are modelled as exact rationals over arbitrary-precision *)
(* naturals (sequences of base-10^4 limbs), so every formula of the source *)
(* is evaluated exactly as written, including (1 + 8/1200)^-120.  What the *)
(* model leaves out of IEEE doubles is their rounding and their finite     *)
(* range: OverflowError and inf are not modelled.  The faults that are     *)
(* modelled are ZeroDivisionError (a zero divisor, or zero raised to a     *)
(* negative power), AttributeError, KeyError and the ValueError of         *)
(* int(nan).                                                               *)
(***************************************************************************)
EXTENDS Integers, Sequences, FiniteSets, TLC

VARIABLES self, pc, call, walk

vars == <<self, pc, call, walk>>

\* ------------------------------------------------------------------------
\* Arbitrary-precision naturals: little-endian limb sequences, no leading
\* zero limb, zero = <<>>.
\* ------------------------------------------------------------------------
Base == 10^4

Limb(a, j) == IF j <= Len(a) THEN a[j] ELSE 0

Max(a, b) == IF a >= b THEN a ELSE b
Min(a, b) == IF a <= b THEN a ELSE b

\* a without its leading zero limbs
NTrim(a) ==
    LET nz == {j \in 1..Len(a) : a[j] # 0}
    IN  IF nz = {} THEN <<>>
        ELSE SubSeq(a, 1, CHOOSE j \in nz : \A k \in nz : k <= j)

RECURSIVE NFromInt(_)
NFromInt(k) ==
    IF k = 0 THEN <<>> ELSE <<k % Base>> \o NFromInt(k \div Base)

\* Limbs lo..hi of a + b + carry, and the carry out; the range is halved so
\* that the recursion is logarithmic in the length.
RECURSIVE NAddRange(_, _, _, _, _)
NAddRange(a, b, lo, hi, carry) ==
    IF lo > hi THEN [s |-> <<>>, c |-> carry]
    ELSE IF lo = hi
    THEN LET t == Limb(a, lo) + Limb(b, lo) + carry
         IN  [s |-> <<t % Base>>, c |-> t \div Base]
    ELSE LET mid == (lo + hi) \div 2
             low == NAddRange(a, b, lo, mid, carry)
             high == NAddRange(a, b, mid + 1, hi, low.c)
         IN  [s |-> low.s \o high.s, c |-> high.c]

NAdd(a, b) ==
    LET r == NAddRange(a, b, 1, Max(Len(a), Len(b)), 0)
    IN  IF r.c = 0 THEN r.s ELSE Append(r.s, r.c)

RECURSIVE NSubRange(_, _, _, _, _)
NSubRange(a, b, lo, hi, borrow) ==
    IF lo > hi THEN [s |-> <<>>, c |-> borrow]
    ELSE IF lo = hi
    THEN LET t == a[lo] - Limb(b, lo) - borrow
         IN  IF t < 0 THEN [s |-> <<t + Base>>, c |-> 1]
             ELSE [s |-> <<t>>, c |-> 0]
    ELSE LET mid == (lo + hi) \div 2
             low == NSubRange(a, b, lo, mid, borrow)
             high == NSubRange(a, b, mid + 1, hi, low.c)
         IN  [s |-> low.s \o high.s, c |-> high.c]

\* a - b for a >= b
NSub(a, b) == NTrim(NSubRange(a, b, 1, Len(a), 0).s)

\* -1, 0, 1 as a < b, a = b, a > b
NCmp(a, b) ==
    IF Len(a) < Len(b) THEN -1
    ELSE IF Len(a) > Len(b) THEN 1
    ELSE LET diff == {j \in 1..Len(a) : a[j] # b[j]}
         IN  IF diff = {} THEN 0
             ELSE LET top == CHOOSE j \in diff : \A k \in diff : k <= j
                  IN  IF a[top] < b[top] THEN -1 ELSE 1

RECURSIVE NMulLimbRange(_, _, _, _, _)
NMulLimbRange(a, k, lo, hi, carry) ==
    IF lo > hi THEN [s |-> <<>>, c |-> carry]
    ELSE IF lo = hi
    THEN LET t == a[lo] * k + carry
         IN  [s |-> <<t % Base>>, c |-> t \div Base]
    ELSE LET mid == (lo + hi) \div 2
             low == NMulLimbRange(a, k, lo, mid, carry)
             high == NMulLimbRange(a, k, mid + 1, hi, low.c)
         IN  [s |-> low.s \o high.s, c |-> high.c]

\* a * k for one limb k
NMulLimb(a, k) ==
    IF k = 0 THEN <<>>
    ELSE LET r == NMulLimbRange(a, k, 1, Len(a), 0)
         IN  IF r.c = 0 THEN r.s ELSE Append(r.s, r.c)

\* a * Base^k
NShift(a, k) == IF a = <<>> THEN <<>> ELSE [j \in 1..k |-> 0] \o a

\* a times the limbs lo..hi of b
RECURSIVE NMulRange(_, _, _, _)
NMulRange(a, b, lo, hi) ==
    IF lo = hi THEN NMulLimb(a, b[lo])
    ELSE LET mid == (lo + hi) \div 2
         IN  NAdd(NMulRange(a, b, lo, mid),
                  NShift(NMulRange(a, b, mid + 1, hi), mid + 1 - lo))

NMul(a, b) ==
    IF a = <<>> \/ b = <<>> THEN <<>>
    ELSE NMulRange(IF Len(a) >= Len(b) THEN a ELSE b,
                   IF Len(a) >= Len(b) THEN b ELSE a,
                   1, Min(Len(a), Len(b)))

\* h * h * f
NSquareTimes(h, f) == NMul(NMul(h, h), f)

\* a^e by repeated squaring
RECURSIVE NPow(_, _)
NPow(a, e) ==
    IF e = 0 THEN <<1>>
    ELSE NSquareTimes(NPow(a, e \div 2), IF e % 2 = 0 THEN <<1>> ELSE a)

\* the value of a natural of at most two limbs
NSmall(a) ==
    IF Len(a) = 0 THEN 0 ELSE IF Len(a) = 1 THEN a[1] ELSE a[1] + Base * a[2]

RECURSIVE Gcd(_, _)
Gcd(m, n) == IF n = 0 THEN m ELSE Gcd(n, m % n)

\* the number of low limbs of a that are zero (a # <<>>)
LowZeros(a) ==
    (CHOOSE j \in 1..Len(a) : a[j] # 0 /\ \A k \in 1..(j - 1) : a[k] = 0) - 1

\* ------------------------------------------------------------------------
\* Rationals: [neg, num, den], den > 0, zero is never negative.  RMk
\* reduces lightly: a common power of Base is cancelled, and the whole
\* fraction when both parts have at most two limbs.
\* ------------------------------------------------------------------------
RSmallReduced(neg, n, d, g) ==
    [neg |-> neg, num |-> NFromInt(n \div g), den |-> NFromInt(d \div g)]

RReduced(neg, n, d) ==
    IF Len(n) <= 2 /\ Len(d) <= 2
    THEN RSmallReduced(neg, NSmall(n), NSmall(d), Gcd(NSmall(n), NSmall(d)))
    ELSE IF n = d THEN [neg |-> neg, num |-> <<1>>, den |-> <<1>>]
    ELSE [neg |-> neg, num |-> n, den |-> d]

RCut(neg, num, den, z) ==
    RReduced(neg, SubSeq(num, z + 1, Len(num)), SubSeq(den, z + 1, Len(den)))

RMk(neg, num, den) ==
    IF num = <<>> THEN [neg |-> FALSE, num |-> <<>>, den |-> <<1>>]
    ELSE RCut(neg, num, den, Min(LowZeros(num), LowZeros(den)))

\* the integer k
R(k) == [neg |-> k < 0, num |-> NFromInt(IF k < 0 THEN -k ELSE k), den |-> <<1>>]

Zero == R(0)
One == R(1)

RIsZero(x) == x.num = <<>>
RNeg(x) == [x EXCEPT !.neg = ~x.neg /\ x.num # <<>>]

RMul(x, y) == RMk(x.neg # y.neg, NMul(x.num, y.num), NMul(x.den, y.den))

\* the sum of two signed magnitudes over one denominator; c is NCmp(xn, yn)
RSum(xneg, xn, yneg, yn, den, c) ==
    RMk(IF xneg = yneg \/ c >= 0 THEN xneg ELSE yneg,
        IF xneg = yneg THEN NAdd(xn, yn)
        ELSE NSub(IF c >= 0 THEN xn ELSE yn, IF c >= 0 THEN yn ELSE xn),
        den)

RSumOver(xneg, xn, yneg, yn, den) ==
    RSum(xneg, xn, yneg, yn, den, NCmp(xn, yn))

RAdd(x, y) ==
    RSumOver(x.neg, IF x.den = y.den THEN x.num ELSE NMul(x.num, y.den),
             y.neg, IF x.den = y.den THEN y.num ELSE NMul(y.num, x.den),
             IF x.den = y.den THEN x.den ELSE NMul(x.den, y.den))

RSub(x, y) == RAdd(x, RNeg(y))

\* 1/x for x # 0
RInv(x) == [neg |-> x.neg, num |-> x.den, den |-> x.num]

\* x/y for y # 0
RDiv(x, y) == RMul(x, RInv(y))

\* the sign of x: -1, 0, 1
RSign(x) == IF RIsZero(x) THEN 0 ELSE IF x.neg THEN -1 ELSE 1

\* -1, 0, 1 as x < y, x = y, x > y
RCmp(x, y) ==
    IF x.neg # y.neg THEN (IF x.neg THEN -1 ELSE 1)
    ELSE (IF x.neg THEN -1 ELSE 1) * NCmp(NMul(x.num, y.den), NMul(y.num, x.den))

REq(x, y) == RCmp(x, y) = 0
RLeq(x, y) == RCmp(x, y) <= 0
RLt(x, y) == RCmp(x, y) < 0
RMin(x, y) == IF RLeq(x, y) THEN x ELSE y
RMax(x, y) == IF RLeq(x, y) THEN y ELSE x

\* x^e for an integer e >= 0
RPowNat(x, e) == RMk(x.neg /\ e % 2 = 1, NPow(x.num, e), NPow(x.den, e))

\* Python's x ** e for an integer e: zero to a negative power raises
\* ZeroDivisionError; otherwise x ** -e is (1/x) ** e.
PowFaults(x, e) == RIsZero(x) /\ e < 0
PyPow(x, e) ==
    RPowNat(IF e >= 0 THEN x ELSE RInv(x), IF e >= 0 THEN e ELSE -e)

\* What a method call hands back: its return value, the diagnostics it
\* reported through st.error, and whether an exception left it.
Returned(v) == [ret |-> v, errors |-> <<>>, raised |-> "none"]
Caught(v, msg) == [ret |-> v, errors |-> <<msg>>, raised |-> "none"]

\* ------------------------------------------------------------------------
\* FinancialGuru
\* ------------------------------------------------------------------------
HasAttr(obj, a) == a \in DOMAIN obj

\* self.tax_slabs['IND']; unbounded stands for float('inf')
tax_slabs ==
    << [unbounded |-> FALSE, slab |-> R(250000), rate |-> Zero],
       [unbounded |-> FALSE, slab |-> R(500000), rate |-> RDiv(R(5), R(100))],
       [unbounded |-> FALSE, slab |-> R(1000000), rate |-> RDiv(R(2), R(10))],
       [unbounded |-> TRUE, slab |-> Zero, rate |-> RDiv(R(3), R(10))] >>

\* nifty50['Close'].pct_change(), the leading NaN dropped
pct_change(close) ==
    [j \in 1..(Len(close) - 1) |->
        RDiv(RSub(R(close[j + 1]), R(close[j])), R(close[j]))]

RECURSIVE RSumSeq(_, _)
RSumSeq(xs, j) == IF j > Len(xs) THEN Zero ELSE RAdd(xs[j], RSumSeq(xs, j + 1))

RSquare(x) == RMul(x, x)

\* the square of Series.std(): the sample variance (ddof = 1) of at least
\* two values with the given mean
VarianceAbout(xs, mean) ==
    RDiv(RSumSeq([j \in 1..Len(xs) |-> RSquare(RSub(xs[j], mean))], 1),
         R(Len(xs) - 1))

variance(xs) == VarianceAbout(xs, RDiv(RSumSeq(xs, 1), R(Len(xs))))

\* the greatest k with k * k <= q, searched upward from k
RECURSIVE FloorSqrtFrom(_, _)
FloorSqrtFrom(q, k) ==
    IF RLt(q, R((k + 1) * (k + 1))) THEN k ELSE FloorSqrtFrom(q, k + 1)

\* int(10 - sqrt(q)) for q >= 0 and f the floor of sqrt(q): int() truncates
\* toward zero
TruncTenMinus(q, f) ==
    IF RLeq(q, R(100))
    THEN 10 - (IF REq(q, R(f * f)) THEN f ELSE f + 1)
    ELSE 10 - f

IntTenMinusSqrt(q) == TruncTenMinus(q, FloorSqrtFrom(q, 0))

_calculate_risk_profile(obj) ==
    IF ~HasAttr(obj, "nifty50") THEN 5          \* AttributeError, swallowed
    ELSE IF obj.nifty50 = <<>> THEN 5           \* .empty
    ELSE IF Len(obj.nifty50) < 3 THEN 5         \* std() is NaN, int(nan) raises
    ELSE LET var == variance(pct_change(obj.nifty50))
             \* (std * sqrt(252) * 100)^2
             q == RMul(R(252 * 100 * 100), var)
         IN  Min(IntTenMinusSqrt(q), 10)

\* calculate_sip with the months taken for the years
calculate_sip_years(target, years, rate) ==
    LET monthly_rate == RDiv(rate, R(1200))
        growth == RAdd(One, monthly_rate)
    IN  IF PowFaults(growth, years) THEN Caught(Zero, "SIP Error")
        ELSE LET denom == RSub(PyPow(growth, years), One)
             IN  IF RIsZero(denom) THEN Caught(Zero, "SIP Error")
                 ELSE Returned(RDiv(RMul(target, monthly_rate), denom))

calculate_sip(target, years, rate) ==
    LET monthly_rate == RDiv(rate, R(1200))
        months == years * 12
        growth == RAdd(One, monthly_rate)
    IN  IF PowFaults(growth, months) THEN Caught(Zero, "SIP Error")
        ELSE LET denom == RSub(PyPow(growth, months), One)
             IN  IF RIsZero(denom) THEN Caught(Zero, "SIP Error")
                 ELSE Returned(RDiv(RMul(target, monthly_rate), denom))

\* calculate_swp without its try/except: the fault leaves the method
calculate_swp_unguarded(corpus, years, rate) ==
    LET monthly_rate == RDiv(rate, R(1200))
        months == years * 12
        growth == RAdd(One, monthly_rate)
    IN  IF PowFaults(growth, -months)
        THEN [ret |-> Zero, errors |-> <<>>, raised |-> "ZeroDivisionError"]
        ELSE LET denom == RSub(One, PyPow(growth, -months))
             IN  IF RIsZero(denom)
                 THEN [ret |-> Zero, errors |-> <<>>, raised |-> "ZeroDivisionError"]
                 ELSE Returned(RDiv(RMul(corpus, monthly_rate), denom))

calculate_swp(corpus, years, rate) ==
    LET monthly_rate == RDiv(rate, R(1200))
        months == years * 12
        growth == RAdd(One, monthly_rate)
    IN  IF PowFaults(growth, -months) THEN Caught(Zero, "SWP Error")
        ELSE LET denom == RSub(One, PyPow(growth, -months))
             IN  IF RIsZero(denom) THEN Caught(Zero, "SWP Error")
                 ELSE Returned(RDiv(RMul(corpus, monthly_rate), denom))

calculate_emi(principal, rate, years) ==
    LET monthly_rate == RDiv(rate, R(1200))
        months == years * 12
        growth == RAdd(One, monthly_rate)
    IN  IF PowFaults(growth, months) THEN Caught(Zero, "EMI Error")
        ELSE LET factor == PyPow(growth, months)
                 denom == RSub(factor, One)
             IN  IF RIsZero(denom) THEN Caught(Zero, "EMI Error")
                 ELSE Returned(RDiv(RMul(RMul(principal, monthly_rate), factor),
                                    denom))

ELSS == "Invest 1.5L in ELSS (Section 80C)"
HealthInsurance == "Health Insurance (Section 80D)"
NPS == "NPS Investment (Section 80CCD)"

\* tax_saving_options with the checks chained as if / elif / elif
tax_saving_options_elif(income) ==
    Returned(IF income > 1500000 THEN <<ELSS>>
             ELSE IF income > 700000 THEN <<HealthInsurance>>
             ELSE IF income > 500000 THEN <<NPS>>
             ELSE <<>>)

tax_saving_options(income) ==
    Returned((IF income > 1500000 THEN <<ELSS>> ELSE <<>>) \o
             (IF income > 700000 THEN <<HealthInsurance>> ELSE <<>>) \o
             (IF income > 500000 THEN <<NPS>> ELSE <<>>))

\* create_goal_plan with the withdrawal spread over the caller's years
create_goal_plan_years(goal_type, current_cost, years, inflation) ==
    LET growth == RAdd(One, RDiv(inflation, R(100)))
    IN  IF PowFaults(growth, years) THEN Caught(<<>>, "Goal Planning Error")
        ELSE LET future_value == RMul(current_cost, PyPow(growth, years))
                 sip == calculate_sip(future_value, years, R(12))
                 swp == calculate_swp(future_value, years, R(8))
             IN  [ret |-> [future_value |-> future_value,
                           monthly_sip |-> sip.ret,
                           monthly_swp |-> swp.ret],
                  errors |-> sip.errors \o swp.errors,
                  raised |-> "none"]

\* goal_type is accepted and never read
create_goal_plan(goal_type, current_cost, years, inflation) ==
    LET growth == RAdd(One, RDiv(inflation, R(100)))
    IN  IF PowFaults(growth, years) THEN Caught(<<>>, "Goal Planning Error")
        ELSE LET future_value == RMul(current_cost, PyPow(growth, years))
                 sip == calculate_sip(future_value, years, R(12))
                 swp == calculate_swp(future_value, 10, R(8))
             IN  [ret |-> [future_value |-> future_value,
                           monthly_sip |-> sip.ret,
                           monthly_swp |-> swp.ret],
                  errors |-> sip.errors \o swp.errors,
                  raised |-> "none"]


\* ------------------------------------------------------------------------
\* Bounds and the inputs the actions draw from
\* ------------------------------------------------------------------------
MaxSeriesLen == 3
MaxYears == 2

\* close prices: a flat tick, a one-point tick and a one-percent jump
Prices == {10000, 10001, 10100}

RECURSIVE SeqsUpTo(_, _)
SeqsUpTo(S, n) ==
    IF n = 0 THEN {<<>>}
    ELSE LET shorter == SeqsUpTo(S, n - 1)
         IN  shorter \cup {Append(q, x) : q \in {r \in shorter : Len(r) = n - 1}, x \in S}

\* what _get_index_data can return: the empty frame or a close series
Series == SeqsUpTo(Prices, MaxSeriesLen)

Amounts == {-1000, 0, 1000000, 5000000}
Years == -1..MaxYears
Rates == {-1200, 0, 8, 12}
Incomes == {0, 200000, 400000, 500000, 600000, 700000, 800000, 1500000,
            1600000, 2000000}
Deductions == {0, 150000}
GoalTypes == {"Education", "Retirement", "Home", "Travel"}
Costs == {0, 1000000}
Inflations == {-100, 6}

NoCall == [op |-> "none", args |-> <<>>, ret |-> <<>>, errors |-> <<>>,
           raised |-> "none"]
NoWalk == [i |-> 0]

\* the record of a finished call: what was called, with what, and what
\* came back
Called(op, args, result) ==
    [op |-> op, args |-> args, ret |-> result.ret, errors |-> result.errors,
     raised |-> result.raised]

\* ------------------------------------------------------------------------
\* FinancialGuru.__init__ and the places of main() that show the risk score
\* ------------------------------------------------------------------------
Init == /\ self = <<>>
        /\ pc = "new"
        /\ call = NoCall
        /\ walk = NoWalk

\* line 13: self.risk_profile = self._calculate_risk_profile()
SetRiskProfile ==
    /\ pc = "new"
    /\ self' = [risk_profile |-> _calculate_risk_profile(self)]
    /\ pc' = "risk_set"
    /\ UNCHANGED <<call, walk>>

\* __init__ with the score computed after the index data is in place
SetIndexData_rescored(series) ==
    /\ pc = "risk_set"
    /\ self' = [risk_profile |-> _calculate_risk_profile([nifty50 |-> series]),
                nifty50 |-> series]
    /\ pc' = "ready"
    /\ UNCHANGED <<call, walk>>

\* lines 14-22: self.nifty50 = self._get_index_data('^NSEI') and the rest
SetIndexData(series) ==
    /\ pc = "risk_set"
    /\ self' = [risk_profile |-> self.risk_profile, nifty50 |-> series]
    /\ pc' = "ready"
    /\ UNCHANGED <<call, walk>>

_safe_nifty_value(obj) ==
    IF obj.nifty50 # <<>> THEN <<obj.nifty50[Len(obj.nifty50)]>> ELSE <<"N/A">>

Idle == pc = "ready" /\ call.op = "none"

\* lines 191-196: the dashboard metrics
Dashboard ==
    /\ Idle
    /\ call' = Called("dashboard", <<>>,
                      Returned([nifty |-> _safe_nifty_value(self),
                                risk |-> <<self.risk_profile, "/10">>]))
    /\ UNCHANGED <<self, pc, walk>>

\* lines 265-275: the report's "Risk Profile" line
Report ==
    /\ Idle
    /\ call' = Called("report", <<>>,
                      Returned([risk |-> <<self.risk_profile, "/10">>]))
    /\ UNCHANGED <<self, pc, walk>>

\* a call of _calculate_risk_profile on the constructed object
ScoreCall ==
    /\ Idle
    /\ call' = Called("risk", <<>>, Returned(_calculate_risk_profile(self)))
    /\ UNCHANGED <<self, pc, walk>>

\* the script runs again from the top: main() builds a new FinancialGuru
Rerun ==
    /\ pc = "ready"
    /\ self' = <<>>
    /\ pc' = "new"
    /\ call' = NoCall
    /\ walk' = NoWalk

Next ==
    \/ SetRiskProfile
    \/ \E series \in Series : SetIndexData(series)
    \/ Dashboard
    \/ Report
    \/ ScoreCall
    \/ Rerun

Spec == Init /\ [][Next]_vars

\* ------------------------------------------------------------------------
\* The calculators, called on a constructed object
\* ------------------------------------------------------------------------
\* the constructed object: the score is the one line 13 left, the frame is
\* the empty one of a failed download or a three-sample session
InitCalc ==
    /\ self \in {[risk_profile |-> 5, nifty50 |-> s] :
                    s \in {<<>>, <<10000, 10001, 10000>>}}
    /\ pc = "ready"
    /\ call = NoCall
    /\ walk = NoWalk

CallSip(target, years, rate) ==
    /\ Idle
    /\ call' = Called("sip", [amount |-> target, years |-> years, rate |-> rate],
                      calculate_sip(R(target), years, R(rate)))
    /\ UNCHANGED <<self, pc, walk>>

CallSwp(corpus, years, rate) ==
    /\ Idle
    /\ call' = Called("swp", [amount |-> corpus, years |-> years, rate |-> rate],
                      calculate_swp(R(corpus), years, R(rate)))
    /\ UNCHANGED <<self, pc, walk>>

CallEmi(principal, rate, years) ==
    /\ Idle
    /\ call' = Called("emi", [amount |-> principal, years |-> years, rate |-> rate],
                      calculate_emi(R(principal), R(rate), years))
    /\ UNCHANGED <<self, pc, walk>>

CallSuggest(income) ==
    /\ Idle
    /\ call' = Called("suggest", [income |-> income], tax_saving_options(income))
    /\ UNCHANGED <<self, pc, walk>>

\* lines 213-216: the caller reads the three fields of the plan; a missing
\* key raises KeyError in the caller
ReadPlan(result) ==
    IF \A k \in {"future_value", "monthly_sip", "monthly_swp"} : k \in DOMAIN result.ret
    THEN result
    ELSE [result EXCEPT !.raised = "KeyError"]

GeneratePlan(goal_type, current_cost, years, inflation) ==
    /\ Idle
    /\ call' = Called("goal",
                      [goal_type |-> goal_type, current_cost |-> current_cost,
                       years |-> years, inflation |-> inflation],
                      ReadPlan(create_goal_plan(goal_type, R(current_cost), years,
                                                R(inflation))))
    /\ UNCHANGED <<self, pc, walk>>

\* calculate_tax, lines 88-90: the walk starts.  amounts is the history of
\* what each slab consumed.
TaxStart(income, deductions) ==
    /\ Idle
    /\ pc' = "tax_loop"
    /\ walk' = LET taxable == RMax(RSub(R(income), R(deductions)), Zero)
               IN  [income |-> income, deductions |-> deductions,
                    taxable |-> taxable, tax |-> Zero, remaining |-> taxable,
                    i |-> 1, amounts |-> <<>>]
    /\ UNCHANGED <<self, call>>

\* min(remaining, slab), with slab possibly float('inf')
SlabAmount(remaining, entry) ==
    IF entry.unbounded THEN remaining ELSE RMin(remaining, entry.slab)

\* the walk with each bound read as a cumulative threshold: a slab's width
\* is its bound less the bound before it
TaxLoopBody_cumulative(w) ==
    LET entry == tax_slabs[w.i]
        below == IF w.i = 1 THEN Zero ELSE tax_slabs[w.i - 1].slab
        amount == SlabAmount(w.remaining,
                             [entry EXCEPT !.slab = RSub(entry.slab, below)])
    IN  [w EXCEPT !.tax = RAdd(w.tax, RMul(amount, entry.rate)),
                  !.remaining = RSub(w.remaining, amount),
                  !.i = w.i + 1,
                  !.amounts = Append(w.amounts, amount)]

\* lines 93-95: one slab of the walk
TaxLoopBody(w) ==
    LET entry == tax_slabs[w.i]
        amount == SlabAmount(w.remaining, entry)
    IN  [w EXCEPT !.tax = RAdd(w.tax, RMul(amount, entry.rate)),
                  !.remaining = RSub(w.remaining, amount),
                  !.i = w.i + 1,
                  !.amounts = Append(w.amounts, amount)]

\* line 92: if remaining <= 0: break
WalkOver(w) == w.i > Len(tax_slabs) \/ RLeq(w.remaining, Zero)

TaxStep ==
    /\ pc = "tax_loop"
    /\ ~WalkOver(walk)
    /\ walk' = TaxLoopBody(walk)
    /\ UNCHANGED <<self, pc, call>>

\* line 96: return tax
TaxReturn ==
    /\ pc = "tax_loop"
    /\ WalkOver(walk)
    /\ call' = Called("tax", [income |-> walk.income, deductions |-> walk.deductions],
                      Returned(walk.tax))
    /\ pc' = "ready"
    /\ UNCHANGED <<self, walk>>

\* the result has been shown; the next call can be made
Done ==
    /\ pc = "ready"
    /\ call.op # "none"
    /\ call' = NoCall
    /\ walk' = NoWalk
    /\ UNCHANGED <<self, pc>>

NextCalc ==
    \/ \E a \in Amounts, y \in Years, r \in Rates : CallSip(a, y, r)
    \/ \E a \in Amounts, y \in Years, r \in Rates : CallSwp(a, y, r)
    \/ \E a \in Amounts, y \in Years, r \in Rates : CallEmi(a, r, y)
    \/ \E income \in Incomes : CallSuggest(income)
    \/ \E g \in GoalTypes, c \in Costs, y \in Years, f \in Inflations :
          GeneratePlan(g, c, y, f)
    \/ \E income \in Incomes, d \in Deductions : TaxStart(income, d)
    \/ TaxStep
    \/ TaxReturn
    \/ Done

SpecCalc == InitCalc /\ [][NextCalc]_vars

\* ------------------------------------------------------------------------
\* Claims
\* ------------------------------------------------------------------------
IsCall(op) == pc = "ready" /\ call.op = op

\* C1: calculate_tax(600000, 0) with the default table returns
\* 250000*0 + 250000*0.05 + 100000*0.2 = 32500.
C1_TaxOf600000 ==
    (IsCall("tax") /\ call.args.income = 600000 /\ call.args.deductions = 0)
        => REq(call.ret, R(32500))

\* C2: for every principal > 0, years > 0 and rate >= 0 (rate = 0
\* included) the total interest emi * months - principal is non-negative.
C2_EmiInterestNonNegative ==
    (IsCall("emi") /\ call.args.amount > 0 /\ call.args.years > 0
                   /\ call.args.rate >= 0)
        => RLeq(Zero, RSub(RMul(call.ret, R(call.args.years * 12)),
                           R(call.args.amount)))

ErrorOf(op) ==
    IF op = "sip" THEN "SIP Error" ELSE IF op = "swp" THEN "SWP Error" ELSE "EMI Error"

\* 1 + rate/1200 is zero and is raised to a negative power
ZeroToNegativePower ==
    /\ call.args.rate = -1200
    /\ IF call.op = "swp" THEN call.args.years > 0 ELSE call.args.years < 0

\* C3: in calculate_sip, calculate_swp and calculate_emi, whenever
\* years = 0 or rate = 0, or zero is raised to a negative power, the call
\* reports its error and returns 0; whatever the amount, no exception leaves
\* the call, and a call that reports an error returns 0.
C3_AnnuityFaultsReported ==
    (pc = "ready" /\ call.op \in {"sip", "swp", "emi"}) =>
        /\ call.raised = "none"
        /\ (call.args.years = 0 \/ call.args.rate = 0 \/ ZeroToNegativePower)
              => (RIsZero(call.ret) /\ call.errors = <<ErrorOf(call.op)>>)
        /\ call.errors # <<>> => RIsZero(call.ret)

\* a withdrawal plan at rate 0 over a positive corpus has reported its error
C3_Witness ==
    /\ IsCall("swp")
    /\ call.args = [amount |-> 5000000, years |-> 1, rate |-> 0]
    /\ call.errors = <<"SWP Error">>
    /\ RIsZero(call.ret)

\* C4: _calculate_risk_profile returns an integer in [0,10] for every price
\* series held in nifty50, and exactly 5 for the empty series.
C4_ScoreWithinBounds ==
    IsCall("risk") =>
        /\ call.ret \in 0..10
        /\ self.nifty50 = <<>> => call.ret = 5

\* C5: every create_goal_plan call returns a record holding future_value,
\* monthly_sip and monthly_swp, so the caller's reads of the three fields
\* never raise.
C5_PlanAlwaysComplete ==
    IsCall("goal") =>
        /\ DOMAIN call.ret = {"future_value", "monthly_sip", "monthly_swp"}
        /\ call.raised = "none"

\* the three suggestions with their thresholds, in the order of the checks
SuggestionTable ==
    << [over |-> 1500000, text |-> ELSS],
       [over |-> 700000, text |-> HealthInsurance],
       [over |-> 500000, text |-> NPS] >>

RECURSIVE Crossed(_, _)
Crossed(income, j) ==
    IF j > Len(SuggestionTable) THEN <<>>
    ELSE (IF income > SuggestionTable[j].over
          THEN <<SuggestionTable[j].text>> ELSE <<>>) \o Crossed(income, j + 1)

\* C6: tax_saving_options(income) is exactly the sub-list of ELSS
\* (income > 1500000), Health Insurance (income > 700000), NPS
\* (income > 500000) whose threshold income strictly exceeds, in that order;
\* 1600000 yields all three, 400000 and 500000 yield the empty list.
C6_SuggestionsByThreshold ==
    IsCall("suggest") =>
        /\ call.ret = Crossed(call.args.income, 1)
        /\ call.args.income = 1600000 => call.ret = <<ELSS, HealthInsurance, NPS>>
        /\ call.args.income \in {400000, 500000} => call.ret = <<>>
        /\ call.errors = <<>>

C6_Witness ==
    /\ IsCall("suggest")
    /\ call.args.income = 1600000
    /\ Len(call.ret) = 3

\* current_cost * (1 + inflation/100)^years
InflatedCost(current_cost, years, inflation) ==
    RMul(R(current_cost), PyPow(RAdd(One, RDiv(R(inflation), R(100))), years))

PlanMatches(plan, fv, years) ==
    /\ REq(plan.future_value, fv)
    /\ REq(plan.monthly_sip, calculate_sip(fv, years, R(12)).ret)
    /\ REq(plan.monthly_swp, calculate_swp(fv, 10, R(8)).ret)

\* C7: for years > 0, create_goal_plan returns future_value =
\* current_cost * (1 + inflation/100)^years, monthly_sip =
\* calculate_sip(future_value, years, 12) and monthly_swp =
\* calculate_swp(future_value, 10, 8): the withdrawal horizon is 10 years
\* whatever the caller's years, and no field depends on goal_type.
C7_PlanComposition ==
    (IsCall("goal") /\ call.args.years > 0) =>
        /\ call.raised = "none"
        /\ PlanMatches(call.ret,
                       InflatedCost(call.args.current_cost, call.args.years,
                                    call.args.inflation),
                       call.args.years)

\* a two-year plan: the withdrawal is still sized over ten years
C7_Witness ==
    /\ IsCall("goal")
    /\ call.args = [goal_type |-> "Travel", current_cost |-> 1000000,
                    years |-> 2, inflation |-> 6]
    /\ RLt(Zero, call.ret.monthly_swp)
    /\ RLt(call.ret.monthly_swp, call.ret.monthly_sip)

\* the balance after n more months of paying deposit at each month's end,
\* the balance growing by the factor growth each month (the test on the
\* balance has it evaluated before the next month is entered)
RECURSIVE AccumulateFrom(_, _, _, _)
AccumulateFrom(balance, deposit, growth, n) ==
    IF n = 0 \/ balance.den = <<>> THEN balance
    ELSE AccumulateFrom(RAdd(RMul(balance, growth), deposit), deposit, growth,
                        n - 1)

\* the balance is linear in the deposit: the months are accumulated for a
\* deposit of 1 and the result is scaled by the deposit
Accumulate(deposit, growth, n) ==
    RMul(deposit, AccumulateFrom(Zero, One, growth, n))

\* C8: for target > 0, years > 0 and rate > 0, depositing
\* calculate_sip(target, years, rate) each month for years*12 months, the
\* balance compounding monthly at rate/1200, accumulates to target.
C8_SipAccumulatesToTarget ==
    (IsCall("sip") /\ call.args.amount > 0 /\ call.args.years > 0
                   /\ call.args.rate > 0)
        => /\ call.errors = <<>>
           /\ REq(Accumulate(call.ret,
                             RAdd(One, RDiv(R(call.args.rate), R(1200))),
                             call.args.years * 12),
                  R(call.args.amount))

C8_Witness ==
    /\ IsCall("sip")
    /\ call.args = [amount |-> 5000000, years |-> 2, rate |-> 12]
    /\ RLt(Zero, call.ret)

\* min(max(t - from, 0), width)
Span(t, from, width) == RMin(RMax(RSub(t, R(from)), Zero), R(width))

\* 0*min(t,250000) + 0.05*min(max(t-250000,0),500000)
\*   + 0.2*min(max(t-750000,0),1000000) + 0.3*max(t-1750000,0)
WidthTax(t) ==
    RAdd(RAdd(RMul(Zero, Span(t, 0, 250000)),
              RMul(RDiv(R(5), R(100)), Span(t, 250000, 500000))),
         RAdd(RMul(RDiv(R(2), R(10)), Span(t, 750000, 1000000)),
              RMul(RDiv(R(3), R(10)), RMax(RSub(t, R(1750000)), Zero))))

Walking == pc = "tax_loop" \/ IsCall("tax")

\* C9: with t = max(income - deductions, 0), the slab walk consumes each
\* stored bound as the width of its own bracket: at every step
\* remaining >= 0 and consumed + remaining = t, when the walk ends
\* remaining = 0, and the tax returned is the width formula.
C9_SlabWalk ==
    Walking =>
        /\ REq(walk.taxable,
               RMax(RSub(R(walk.income), R(walk.deductions)), Zero))
        /\ RLeq(Zero, walk.remaining)
        /\ REq(RAdd(RSumSeq(walk.amounts, 1), walk.remaining), walk.taxable)
        /\ IsCall("tax") =>
              /\ RIsZero(walk.remaining)
              /\ REq(call.ret, WidthTax(walk.taxable))

\* a taxable income that reaches the unbounded slab
C9_Witness ==
    /\ IsCall("tax")
    /\ call.args = [income |-> 2000000, deductions |-> 0]
    /\ Len(walk.amounts) = 4
    /\ REq(call.ret, R(300000))

\* C10: the score is computed before nifty50 is assigned and never again:
\* once construction has set it risk_profile = 5 whatever series the fetch
\* returns, and the dashboard and the report show 5/10.
C10_RiskProfileAlwaysFive ==
    /\ HasAttr(self, "risk_profile") => self.risk_profile = 5
    /\ (pc = "ready" /\ call.op \in {"dashboard", "report"})
          => call.ret.risk = <<5, "/10">>

\* the dashboard over a session whose volatility would score below zero
C10_Witness ==
    /\ IsCall("dashboard")
    /\ self.nifty50 = <<10000, 10100, 10000>>
    /\ _calculate_risk_profile(self) < 0
    /\ call.ret.risk = <<5, "/10">>
====
